---- MODULE Spec2Model ----
(***************************************************************************)
(* Model of the loader layer of Pytorch-Robust (FAT/src/loadopts.py with   *)
(* the preset tables of Rice2020ICML/src/config.py):                       *)
(*   - the MultiLR learning-rate scheduler,                                *)
(*   - the string-keyed resolvers and the shared preset tables,            *)
(*   - the _Normalize wrapper.                                             *)
(* Real numbers (learning rates, factors, pixel values, means, stds) are   *)
(* exact rationals <<numerator, denominator>> in lowest terms with a       *)
(* positive denominator; floating-point rounding is not modelled.          *)
(***************************************************************************)
EXTENDS Integers, Sequences, FiniteSets, TLC

VARIABLES
    \* ---- MultiLR (loadopts.py 297-316) and its bound optimizer
    milstones,      \* self.milstones
    factors,        \* self.factors
    base_lr,        \* self.base_lr
    cur_epoch,      \* self.cur_epoch
    param_groups,   \* self.optimizer.param_groups, each group's 'lr'
    raised,         \* the exception the last call left with, or "none"
    calls,          \* number of calls to step so far (history)
    \* ---- preset tables (config.py) and the last resolver call
    OPTIMS,         \* name -> parameter set
    LEARNING_POLICY,\* name -> <<scheduler kind, parameter set>>
    call,           \* the last resolver call: function, name, overrides
    ret,            \* what the last resolver call returned or raised
    \* ---- _Normalize (loadopts.py 104-139) and the last calls on it
    args,           \* the mean and std the wrapper was constructed with (history)
    normalizer,     \* flag, nat_normalize, inv_normalize
    imgs,           \* the batch given to the last call
    out,            \* what the last call returned or raised
    back,           \* what calling the wrapper on `out` with inv=True gave
    \* ---- _split_dataset (loadopts.py 193-209): its arguments and what it returned
    datasize,       \* len(dataset)
    ratio,          \* ratio
    shuffle,        \* shuffle
    trainset,       \* the indices of the returned trainset
    validset,       \* the indices of the returned validset
    split           \* whether _split_dataset has returned

vars == <<milstones, factors, base_lr, cur_epoch, param_groups, raised, calls,
          OPTIMS, LEARNING_POLICY, call, ret,
          args, normalizer, imgs, out, back,
          datasize, ratio, shuffle, trainset, validset, split>>

schedVars == <<milstones, factors, base_lr, cur_epoch, param_groups, raised, calls>>
tableVars == <<OPTIMS, LEARNING_POLICY, call, ret>>
normVars  == <<args, normalizer, imgs, out, back>>
splitVars == <<datasize, ratio, shuffle, trainset, validset, split>>

-----------------------------------------------------------------------------
(* Bounds of the model. *)

\* step is called at most MaxEpoch times
MaxEpoch == 151
\* the bound optimizer has 1..MaxGroups parameter groups
MaxGroups == 2
\* a batch holds 0..MaxBatch images
MaxBatch == 2
\* a dataset holds 0..MaxData items
MaxData == 4

-----------------------------------------------------------------------------
(* Exact rational arithmetic. *)

Abs(n) == IF n < 0 THEN -n ELSE n

RECURSIVE GCD(_, _)
GCD(a, b) == IF b = 0 THEN a ELSE GCD(b, a % b)

\* a non-finite float (inf or nan), the result of a division by zero
NonFinite == <<1, 0>>

IsFinite(q) == q[2] # 0

\* n/d in lowest terms, denominator positive
Rat(n, d) ==
    IF d = 0 THEN NonFinite
    ELSE LET g == GCD(Abs(n), Abs(d))
             s == IF d < 0 THEN -1 ELSE 1
         IN  <<s * (n \div g), s * (d \div g)>>

RMul(p, q) ==
    IF ~IsFinite(p) \/ ~IsFinite(q) THEN NonFinite
    ELSE LET g1 == GCD(Abs(p[1]), q[2])
             g2 == GCD(Abs(q[1]), p[2])
         IN  Rat((p[1] \div g1) * (q[1] \div g2), (p[2] \div g2) * (q[2] \div g1))

RNeg(p) == IF ~IsFinite(p) THEN NonFinite ELSE <<-p[1], p[2]>>

RInv(p) == IF ~IsFinite(p) THEN NonFinite ELSE Rat(p[2], p[1])

RDiv(p, q) == RMul(p, RInv(q))

RSub(p, q) ==
    IF ~IsFinite(p) \/ ~IsFinite(q) THEN NonFinite
    ELSE LET g == GCD(p[2], q[2])
         IN  Rat(p[1] * (q[2] \div g) - q[1] * (p[2] \div g), (p[2] \div g) * q[2])

-----------------------------------------------------------------------------
(* MultiLR: loadopts.py 297-316. *)

\* a local variable that no assignment has bound yet
Unbound == <<0, 0>>

\* the values MultiLR is constructed with; the first of each is __init__'s default
MilstoneChoices ==
    { <<60, 90, 110>>, <<100, 150>>, <<>>, <<1>>, <<2, 4>>, <<3, 5, 7>>, <<4, 2>> }
FactorChoices ==
    { <<Rat(1, 10), Rat(1, 100), Rat(1, 200)>>, <<Rat(1, 10), Rat(1, 100)>>,
      <<>>, <<Rat(1, 2)>> }
BaseLrChoices == { Rat(1, 10), Rat(1, 20) }
\* the learning rates the optimizer was built with
OptimLrChoices == { Rat(1, 10), Rat(1, 5) }

\* line 313: the test of one (milstone, factor) pair
QualifiesLate(epoch, milstone) == epoch >= milstone
Qualifies(epoch, milstone) == epoch >= milstone - 1

\* lines 312-314: the loop over zip(self.milstones, self.factors), from pair i on,
\* lr being the local variable's value so far
RECURSIVE ScanFirst(_, _, _, _, _, _)
ScanFirst(i, lr, ms, fs, base, epoch) ==
    IF i > Len(ms) \/ i > Len(fs) THEN lr
    ELSE IF epoch >= ms[i] - 1 THEN RMul(base, fs[i])
    ELSE ScanFirst(i + 1, lr, ms, fs, base, epoch)
RECURSIVE ScanFrom(_, _, _, _, _, _)
ScanFrom(i, lr, ms, fs, base, epoch) ==
    IF i > Len(ms) \/ i > Len(fs) THEN lr
    ELSE ScanFrom(i + 1,
                  IF Qualifies(epoch, ms[i]) THEN RMul(base, fs[i]) ELSE lr,
                  ms, fs, base, epoch)

\* line 311
NextEpochStuck(epoch) == epoch
NextEpoch(epoch) == epoch + 1

\* lines 310-316: one call to step.  When no pair qualified, lr is read unbound at
\* line 316 and the call leaves with UnboundLocalError, cur_epoch already incremented.
step ==
    /\ calls < MaxEpoch
    /\ LET epoch == NextEpoch(cur_epoch)
           lr    == ScanFrom(1, Unbound, milstones, factors, base_lr, epoch)
       IN  /\ cur_epoch' = epoch
           /\ IF lr = Unbound /\ Len(param_groups) > 0
              THEN /\ raised' = "UnboundLocalError"
                   /\ param_groups' = param_groups
              ELSE /\ raised' = "none"
                   /\ param_groups' = [g \in DOMAIN param_groups |-> lr]
    /\ calls' = calls + 1
    /\ UNCHANGED <<milstones, factors, base_lr>>
    /\ UNCHANGED tableVars
    /\ UNCHANGED normVars
    /\ UNCHANGED splitVars

-----------------------------------------------------------------------------
(* The preset tables: config.py 86-167.  Parameter values are kept as the   *)
(* text of their Python literals: the resolvers only move them around.      *)

\* a mapping with no keys
EmptyMap == [k \in {} |-> ""]

\* config.py 87
SGDPreset ==
    ("lr" :> "0.1") @@ ("momentum" :> "0.9") @@ ("weight_decay" :> "0.0005")
    @@ ("nesterov" :> "False") @@ ("prefix" :> "SGD:")
\* config.py 88
AdamPreset ==
    ("lr" :> "0.01") @@ ("betas" :> "(0.9, 0.999)") @@ ("weight_decay" :> "0.0")
    @@ ("prefix" :> "Adam:")

\* config.py 86-89
InitOPTIMS == ("sgd" :> SGDPreset) @@ ("adam" :> AdamPreset)

MultiStepPreset(milestones, gamma, prefix) ==
    <<"MultiStepLR",
      ("milestones" :> milestones) @@ ("gamma" :> gamma) @@ ("prefix" :> prefix)>>

\* config.py 93-167
InitLEARNING_POLICY ==
    ("default" :> MultiStepPreset("[100, 105]", "0.1",
                     "Default leaning policy will be applied:"))
    @@ ("Rice2020ICML" :> MultiStepPreset("[100, 150]", "0.1",
                     "Default leaning policy will be applied:"))
    @@ ("null" :> <<"StepLR",
                    ("step_size" :> "9999999999999") @@ ("gamma" :> "1")
                    @@ ("prefix" :> "Null leaning policy will be applied:")>>)
    @@ ("STD" :> MultiStepPreset("[82, 123]", "0.1",
                     "STD leaning policy will be applied:"))
    @@ ("STD-wrn" :> MultiStepPreset("[60, 120, 160]", "0.2",
                     "STD-wrn leaning policy will be applied:"))
    @@ ("AT" :> MultiStepPreset("[102, 154]", "0.1",
                     "AT learning policy, an official config:"))
    @@ ("TRADES" :> MultiStepPreset("[75, 90, 100]", "0.1",
                     "TRADES learning policy, an official config:"))
    @@ ("TRADES-M" :> MultiStepPreset("[55, 75, 90]", "0.1",
                     "TRADES learning policy, an official config for MNIST:"))
    @@ ("cosine" :> <<"CosineAnnealingLR",
                    ("T_max" :> "200") @@ ("eta_min" :> "0.0") @@ ("last_epoch" :> "-1")
                    @@ ("prefix" :> "cosine learning policy: T_max == epochs - 1:")>>)

\* config.py 68-74 and 76-82: the datasets MEANS and STDS are keyed by
NormalizedDatasets == {"mnist", "fashionmnist", "svhn", "cifar10", "cifar100"}
\* config.py 53-59: the datasets VALIDER is keyed by; every entry's attack_type is pgd-linf
ValiderDatasets == {"mnist", "fashionmnist", "svhn", "cifar10", "cifar100"}
ValiderAttack == "pgd-linf"

\* Config.update(**kwargs) of dict2obj: override values replace base values by key.
\* The call is made for its effect on the Config it is called on (its value is dropped
\* at loadopts.py 286 and 342).
ConfigUpdate(cfg, kwargs) ==
    [k \in DOMAIN cfg \cup DOMAIN kwargs |->
        IF k \in DOMAIN kwargs THEN kwargs[k] ELSE cfg[k]]

-----------------------------------------------------------------------------
(* The resolvers: loadopts.py 28-101, 142-190, 264-294, 319-467. *)

\* what a resolver call leaves with: an object of some kind built from cfg, or an
\* exception whose message enumerates names
Returned(kind, cfg) == [raised |-> "none", names |-> {}, kind |-> kind, cfg |-> cfg]
Raised(error, names) == [raised |-> error, names |-> names, kind |-> "", cfg |-> EmptyMap]

Called(fn, name, overrides) == [fn |-> fn, name |-> name, overrides |-> overrides]

\* the names a caller asks for that no table or branch knows
UnknownNames == {"imagenet", "FAT"}

\* _dataset.__doc__, lines 152-159
DatasetDoc == {"mnist", "fashionmnist", "svhn", "cifar10", "cifar100"}

\* lines 28-35
GetNumClasses(dataset_type) ==
    IF dataset_type \in {"mnist", "fashionmnist", "svhn", "cifar10"}
    THEN Returned("10", EmptyMap)
    ELSE IF dataset_type \in {"cifar100"}
    THEN Returned("100", EmptyMap)
    ELSE Raised("DatasetNotIncludeError", DatasetDoc)

get_num_classes ==
    /\ \E dataset_type \in DatasetDoc \cup UnknownNames :
          /\ call' = Called("get_num_classes", dataset_type, EmptyMap)
          /\ ret' = GetNumClasses(dataset_type)
    /\ UNCHANGED <<OPTIMS, LEARNING_POLICY>>
    /\ UNCHANGED schedVars
    /\ UNCHANGED normVars
    /\ UNCHANGED splitVars

\* load_model.__doc__, lines 39-48, with its a|b|c abbreviations written out
ModelDoc ==
    {"mnist", "cifar",
     "resnet8", "resnet20", "resnet32", "resnet44", "resnet110", "resnet1202",
     "resnet18", "resnet34", "resnet50", "resnet101", "resnet50_32x4d",
     "preactresnet18", "preactresnet34", "preactresnet50", "preactresnet101",
     "wrn_28_10", "wrn_34_10", "wrn_34_20"}

\* lines 49-53
resnets == {"resnet8", "resnet20", "resnet32", "resnet44", "resnet56", "resnet110",
            "resnet1202"}
srns == {"resnet18", "resnet34", "resnet50", "resnet101", "resnext50_32x4d"}
prns == {"preactresnet18", "preactresnet34", "preactresnet50", "preactresnet101"}
wrns == {"wrn_28_10", "wrn_34_10", "wrn_34_20"}

\* lines 55-77
LoadModel(model_type) ==
    IF model_type = "mnist" THEN Returned("MNIST", EmptyMap)
    ELSE IF model_type = "cifar" THEN Returned("CIFAR", EmptyMap)
    ELSE IF model_type \in resnets \cup srns \cup prns \cup wrns
    THEN Returned(model_type, EmptyMap)
    ELSE Raised("ModelNotDefineError", ModelDoc)

load_model ==
    /\ \E model_type \in {"mnist", "cifar", "resnet32", "resnet18", "preactresnet18",
                          "wrn_28_10"} \cup UnknownNames :
          /\ call' = Called("load_model", model_type, EmptyMap)
          /\ ret' = LoadModel(model_type)
    /\ UNCHANGED <<OPTIMS, LEARNING_POLICY>>
    /\ UNCHANGED schedVars
    /\ UNCHANGED normVars
    /\ UNCHANGED splitVars

\* the functions loss_zoo.py defines (lines 12, 22, 33, 45)
LossZoo == {"cross_entropy", "cross_entropy_softmax", "kl_divergence", "lploss"}

\* load_loss_func.__doc__, lines 81-84
LossDoc == {"cross_entropy", "kl_loss"}

\* lines 87, 90, 93, 96: from .loss_zoo import <function>
ImportLoss(function) ==
    IF function \in LossZoo THEN Returned(function, EmptyMap)
    ELSE Raised("ImportError", {})

\* lines 85-101
LoadLossFunc(loss_type) ==
    IF loss_type = "cross_entropy" THEN ImportLoss("cross_entropy")
    ELSE IF loss_type = "contrastive" THEN ImportLoss("contrastive_loss")
    ELSE IF loss_type = "kl_loss" THEN ImportLoss("kl_divergence")
    ELSE IF loss_type = "margin_loss" THEN ImportLoss("margin_loss")
    ELSE Raised("LossNotDefineError", LossDoc)

load_loss_func ==
    /\ \E loss_type \in {"cross_entropy", "contrastive", "kl_loss", "margin_loss"}
                        \cup UnknownNames :
          /\ call' = Called("load_loss_func", loss_type, EmptyMap)
          /\ ret' = LoadLossFunc(loss_type)
    /\ UNCHANGED <<OPTIMS, LEARNING_POLICY>>
    /\ UNCHANGED schedVars
    /\ UNCHANGED normVars
    /\ UNCHANGED splitVars

\* dict.update of a plain dict (line 283)
DictUpdate(d, other) ==
    [k \in DOMAIN d \cup DOMAIN other |-> IF k \in DOMAIN other THEN other[k] ELSE d[k]]

\* load_optimizer.__doc__, lines 273-276
OptimDoc == {"sgd", "adam"}

\* lines 267-270: the keyword parameters of load_optimizer and their defaults
OptimDefaults ==
    ("lr" :> "0.1") @@ ("momentum" :> "0.9") @@ ("betas" :> "(0.9, 0.999)")
    @@ ("weight_decay" :> "0.0001") @@ ("nesterov" :> "False")

\* the keyword arguments a caller passes to load_optimizer
OptimOverrides ==
    { EmptyMap, ("momentum" :> "0.5"), ("dampening" :> "0.1"),
      ("momentum" :> "0.5") @@ ("dampening" :> "0.1") }

\* lines 267-271 and 283: the caller's keywords bound to the named parameters
\* (defaults where not given), the others collected in **kwargs and then updated
\* with all five named parameters
OptimKwargs(given) ==
    LET named == [k \in DOMAIN OptimDefaults |->
                     IF k \in DOMAIN given THEN given[k] ELSE OptimDefaults[k]]
        extra == [k \in DOMAIN given \ DOMAIN OptimDefaults |-> given[k]]
    IN  DictUpdate(extra, named)

\* lines 264-294.  cfg is the Config stored in OPTIMS (line 278), so the update of
\* line 286 is an update of the table's entry.
load_optimizer ==
    /\ \E optim_type \in {"sgd", "adam"} \cup UnknownNames, given \in OptimOverrides :
          /\ call' = Called("load_optimizer", optim_type, given)
          /\ IF optim_type \notin DOMAIN OPTIMS
             THEN /\ ret' = Raised("OptimNotIncludeError", OptimDoc)
                  /\ OPTIMS' = OPTIMS
             ELSE LET cfg == ConfigUpdate(OPTIMS[optim_type], OptimKwargs(given))
                  IN  /\ OPTIMS' = [OPTIMS EXCEPT ![optim_type] = cfg]
                      /\ ret' = IF optim_type = "sgd" THEN Returned("SGD", cfg)
                                ELSE IF optim_type = "adam" THEN Returned("Adam", cfg)
                                ELSE Raised("UnboundLocalError", {})
    /\ UNCHANGED LEARNING_POLICY
    /\ UNCHANGED schedVars
    /\ UNCHANGED normVars
    /\ UNCHANGED splitVars

\* load_learning_policy.__doc__, lines 324-333
LearningPolicyDoc ==
    {"default", "null", "STD", "STD-wrn", "AT", "TRADES", "TRADES-M", "cosine"}

\* the scheduler classes of torch.optim.lr_scheduler that getattr finds (line 346)
TorchSchedulers == {"MultiStepLR", "StepLR", "CosineAnnealingLR", "ExponentialLR",
                    "LambdaLR", "CyclicLR", "ReduceLROnPlateau"}

\* the policy names and keyword arguments a caller passes to load_learning_policy
PolicyInputs == {"default", "cosine"}
PolicyOverrides ==
    { EmptyMap, ("gamma" :> "0.5"), ("T_max" :> "100"),
      ("gamma" :> "0.5") @@ ("T_max" :> "100") }

\* lines 319-353.  lp_cfg is the Config stored in LEARNING_POLICY (line 341), so the
\* update of line 342 is an update of the table's entry.
load_learning_policy ==
    /\ \E learning_policy_type \in PolicyInputs \cup UnknownNames,
          kwargs \in PolicyOverrides :
          /\ call' = Called("load_learning_policy", learning_policy_type, kwargs)
          /\ IF learning_policy_type \notin DOMAIN LEARNING_POLICY
             THEN /\ ret' = Raised("NotImplementedError", LearningPolicyDoc)
                  /\ LEARNING_POLICY' = LEARNING_POLICY
             ELSE LET lp_type == LEARNING_POLICY[learning_policy_type][1]
                      lp_cfg  == ConfigUpdate(LEARNING_POLICY[learning_policy_type][2],
                                              kwargs)
                  IN  /\ LEARNING_POLICY' =
                            [LEARNING_POLICY EXCEPT ![learning_policy_type] =
                                <<lp_type, lp_cfg>>]
                      /\ ret' = IF lp_type \in TorchSchedulers
                                THEN Returned(lp_type, lp_cfg)
                                ELSE Returned("MultiLR", lp_cfg)
    /\ UNCHANGED OPTIMS
    /\ UNCHANGED schedVars
    /\ UNCHANGED normVars
    /\ UNCHANGED splitVars

\* _attack.__doc__, lines 357-372
AttackDoc ==
    {"pgd-linf", "pgd-l1", "pgd-l2", "pgd-kl", "pgd-softmax", "fgsm", "cw-l2", "ead",
     "slide", "deepfool-linf", "deepfool-l2", "bba-inf", "bba-l1", "bba-l2"}

\* lines 374-444: the names _attack has a branch for
AttackBranches ==
    {"pgd-linf", "pgd-l2", "pgd-l1", "pgd-kl", "pgd-softmax", "fgsm", "cw-l2", "ead",
     "slide", "deepfool-linf", "deepfool-l2", "bba-linf", "bba-l2", "bba-l1"}

\* lines 356-448 (_attack) and 451-455 (load_attack)
Attack(attack_type) ==
    IF attack_type \in AttackBranches THEN Returned(attack_type, EmptyMap)
    ELSE Raised("AttackNotIncludeError", AttackDoc)

load_attack ==
    /\ \E attack_type \in {"pgd-linf", "fgsm", "bba-linf", "bba-inf"} \cup UnknownNames :
          /\ call' = Called("load_attack", attack_type, EmptyMap)
          /\ ret' = Attack(attack_type)
    /\ UNCHANGED <<OPTIMS, LEARNING_POLICY>>
    /\ UNCHANGED schedVars
    /\ UNCHANGED normVars
    /\ UNCHANGED splitVars

\* lines 148-185 (_dataset)
Dataset(dataset_type) ==
    IF dataset_type \in {"mnist", "fashionmnist", "svhn", "cifar10", "cifar100"}
    THEN Returned(dataset_type, EmptyMap)
    ELSE Raised("DatasetNotIncludeError", DatasetDoc)

dataset ==
    /\ \E dataset_type \in DatasetDoc \cup UnknownNames :
          /\ call' = Called("_dataset", dataset_type, EmptyMap)
          /\ ret' = Dataset(dataset_type)
    /\ UNCHANGED <<OPTIMS, LEARNING_POLICY>>
    /\ UNCHANGED schedVars
    /\ UNCHANGED normVars
    /\ UNCHANGED splitVars

\* lines 142-145 (_get_normalizer) and 188-190 (load_normalizer): MEANS[dataset_type]
\* is a plain dict lookup
LoadNormalizer(dataset_type) ==
    IF dataset_type \notin NormalizedDatasets THEN Raised("KeyError", {})
    ELSE Returned("_Normalize", EmptyMap)

load_normalizer ==
    /\ \E dataset_type \in DatasetDoc \cup UnknownNames :
          /\ call' = Called("load_normalizer", dataset_type, EmptyMap)
          /\ ret' = LoadNormalizer(dataset_type)
    /\ UNCHANGED <<OPTIMS, LEARNING_POLICY>>
    /\ UNCHANGED schedVars
    /\ UNCHANGED normVars
    /\ UNCHANGED splitVars

\* lines 458-467: VALIDER[dataset_type] is a plain dict lookup; the attack of the
\* entry is then resolved by load_attack
LoadValider(dataset_type) ==
    IF dataset_type \notin ValiderDatasets THEN Raised("KeyError", {})
    ELSE LET attack == Attack(ValiderAttack)
         IN  IF attack.raised # "none" THEN attack
             ELSE Returned("AdversaryForValid", EmptyMap)

load_valider ==
    /\ \E dataset_type \in DatasetDoc \cup UnknownNames :
          /\ call' = Called("load_valider", dataset_type, EmptyMap)
          /\ ret' = LoadValider(dataset_type)
    /\ UNCHANGED <<OPTIMS, LEARNING_POLICY>>
    /\ UNCHANGED schedVars
    /\ UNCHANGED normVars
    /\ UNCHANGED splitVars

-----------------------------------------------------------------------------
(* _Normalize: loadopts.py 104-139.  An image is its per-channel pixel value *)
(* (one pixel per channel), a batch a sequence of images.                    *)

\* an Optional argument: None, or a tuple of per-channel values
None == [given |-> FALSE, value |-> <<>>]
Some(v) == [given |-> TRUE, value |-> v]

\* config.py 71-73 and 79-81
SvhnMean == <<Rat(1, 2), Rat(1, 2), Rat(1, 2)>>
SvhnStd == <<Rat(1, 2), Rat(1, 2), Rat(1, 2)>>
Cifar10Mean == <<Rat(4914, 10000), Rat(4824, 10000), Rat(4467, 10000)>>
Cifar10Std == <<Rat(2471, 10000), Rat(2435, 10000), Rat(2617, 10000)>>
Cifar100Mean == <<Rat(5071, 10000), Rat(4867, 10000), Rat(4408, 10000)>>
Cifar100Std == <<Rat(2675, 10000), Rat(2565, 10000), Rat(2761, 10000)>>

\* the (mean, std) pairs a _Normalize is constructed with: those of the datasets
\* (None for mnist and fashionmnist), one of the two absent, and a std with a zero
NormalizerArgs ==
    { <<None, None>>, <<Some(SvhnMean), None>>, <<None, Some(SvhnStd)>>,
      <<Some(SvhnMean), Some(SvhnStd)>>, <<Some(Cifar10Mean), Some(Cifar10Std)>>,
      <<Some(Cifar100Mean), Some(Cifar100Std)>>,
      <<Some(SvhnMean), Some(<<Rat(1, 2), Rat(0, 1), Rat(1, 2)>>)>> }

\* the images of a batch
ImageChoices ==
    { <<Rat(0, 1), Rat(0, 1), Rat(0, 1)>>, <<Rat(1, 1), Rat(1, 1), Rat(1, 1)>>,
      <<Rat(0, 1), Rat(1, 4), Rat(1, 1)>>, <<Rat(1, 4), Rat(1, 2), Rat(3, 4)>> }

Batches == UNION { [1..n -> ImageChoices] : n \in 0..MaxBatch }

\* lines 113-125
SetNormalizerNoNeg(mean, std) ==
    IF ~mean.given \/ ~std.given
    THEN [flag |-> FALSE, nat_normalize |-> <<>>, inv_normalize |-> <<>>]
    ELSE LET C == DOMAIN mean.value
         IN  [flag |-> TRUE,
              nat_normalize |-> <<mean.value, std.value>>,
              inv_normalize |->
                 <<[c \in C |-> RDiv(mean.value[c], std.value[c])],
                   [c \in C |-> RInv(std.value[c])]>>]
SetNormalizer(mean, std) ==
    IF ~mean.given \/ ~std.given
    THEN [flag |-> FALSE, nat_normalize |-> <<>>, inv_normalize |-> <<>>]
    ELSE LET C == DOMAIN mean.value
         IN  [flag |-> TRUE,
              nat_normalize |-> <<mean.value, std.value>>,
              inv_normalize |->
                 <<[c \in C |-> RDiv(RNeg(mean.value[c]), std.value[c])],
                   [c \in C |-> RInv(std.value[c])]>>]

\* what a call on the wrapper leaves with
Batch(value, inv) == [called |-> TRUE, raised |-> "none", value |-> value, inv |-> inv]
Failed(error, inv) == [called |-> TRUE, raised |-> error, value |-> <<>>, inv |-> inv]
NotCalled == [called |-> FALSE, raised |-> "none", value |-> <<>>, inv |-> FALSE]

\* torchvision's T.Normalize(mean, std) applied to one image (lines 120-125, 134):
\* a new image (img - mean) / std per channel; a zero in std is refused
HasZero(std) == \E c \in DOMAIN std : std[c] = Rat(0, 1)
TorchNormalize(t, img) ==
    [c \in DOMAIN img |-> RDiv(RSub(img[c], t[1][c]), t[2][c])]

\* lines 127-139 (_normalize, __call__)
NormalizeInvertedFlag(n, x, inv) ==
    IF n.flag THEN Batch(x, inv) ELSE Failed("AttributeError", inv)
Normalize(n, x, inv) ==
    IF ~n.flag THEN Batch(x, inv)
    ELSE LET t == IF inv THEN n.inv_normalize ELSE n.nat_normalize
         IN  \* line 134: every image goes through the transform
             IF Len(x) > 0 /\ HasZero(t[2]) THEN Failed("ValueError", inv)
             \* line 135: torch.stack of an empty list
             ELSE IF Len(x) = 0 THEN Failed("RuntimeError", inv)
             ELSE Batch([i \in DOMAIN x |-> TorchNormalize(t, x[i])], inv)

\* normalizer(imgs) and normalizer(imgs, inv=True)
normalize ==
    /\ \E inv \in BOOLEAN : out' = Normalize(normalizer, imgs, inv)
    /\ back' = NotCalled
    /\ UNCHANGED <<args, normalizer, imgs>>
    /\ UNCHANGED schedVars
    /\ UNCHANGED tableVars
    /\ UNCHANGED splitVars

\* normalizer(normalizer(imgs), inv=True): the inverse call on what the forward call
\* returned
normalize_back ==
    /\ out.called /\ out.raised = "none" /\ ~out.inv
    /\ back' = Normalize(normalizer, out.value, TRUE)
    /\ UNCHANGED <<args, normalizer, imgs, out>>
    /\ UNCHANGED schedVars
    /\ UNCHANGED tableVars
    /\ UNCHANGED splitVars

-----------------------------------------------------------------------------
(* Specifications. *)

\* the parts of the state a specification leaves idle
SchedIdle ==
    /\ milstones = <<>> /\ factors = <<>> /\ base_lr = Rat(1, 10)
    /\ cur_epoch = 0 /\ param_groups = <<Rat(1, 10)>>
    /\ raised = "none" /\ calls = 0
TablesIdle ==
    /\ OPTIMS = InitOPTIMS /\ LEARNING_POLICY = InitLEARNING_POLICY
    /\ call = Called("", "", EmptyMap) /\ ret = Returned("", EmptyMap)
NormIdle ==
    /\ args = [mean |-> None, std |-> None]
    /\ normalizer = SetNormalizer(None, None) /\ imgs = <<>>
    /\ out = NotCalled /\ back = NotCalled
SplitIdle ==
    /\ datasize = 0 /\ ratio = Rat(1, 10) /\ shuffle = TRUE
    /\ trainset = <<>> /\ validset = <<>> /\ split = FALSE

\* lines 298-308: MultiLR(optimizer, lr, milstones, factors) bound to an optimizer
\* of 1..MaxGroups parameter groups
InitSched ==
    /\ milstones \in MilstoneChoices
    /\ factors \in FactorChoices
    /\ base_lr \in BaseLrChoices
    /\ cur_epoch = 0
    /\ param_groups \in UNION { [1..n -> OptimLrChoices] : n \in 1..MaxGroups }
    /\ raised = "none"
    /\ calls = 0
    /\ TablesIdle /\ NormIdle /\ SplitIdle

NextSched == step

SpecSched == InitSched /\ [][NextSched]_vars

\* the module-level tables as config.py builds them, no resolver called yet
InitResolve == SchedIdle /\ TablesIdle /\ NormIdle /\ SplitIdle

NextResolve ==
    \/ get_num_classes
    \/ load_model
    \/ load_loss_func
    \/ load_optimizer
    \/ load_learning_policy
    \/ load_attack
    \/ dataset
    \/ load_normalizer
    \/ load_valider

SpecResolve == InitResolve /\ [][NextResolve]_vars

\* lines 106-111: _Normalize(mean, std), and the batch it is about to be called on
InitNorm ==
    /\ \E a \in NormalizerArgs : args = [mean |-> a[1], std |-> a[2]]
    /\ normalizer = SetNormalizer(args.mean, args.std)
    /\ imgs \in Batches
    /\ out = NotCalled
    /\ back = NotCalled
    /\ SchedIdle /\ TablesIdle /\ SplitIdle

NextNorm == normalize \/ normalize_back

SpecNorm == InitNorm /\ [][NextNorm]_vars

-----------------------------------------------------------------------------
(* Properties of MultiLR, under SpecSched. *)

\* the milestones are in (strictly) ascending order
Ascending(ms) == \A i, j \in DOMAIN ms : i < j => ms[i] < ms[j]

\* the positions of the milestones whose value is <= epoch + 1
QualifyingAt(epoch) == { i \in DOMAIN milstones : milstones[i] <= epoch + 1 }

\* the position of the largest of them
LargestQualifying(epoch) ==
    CHOOSE i \in QualifyingAt(epoch) :
        \A j \in QualifyingAt(epoch) : milstones[j] <= milstones[i]

\* every parameter group of the optimizer has learning rate r
AllRates(r) == \A g \in DOMAIN param_groups : param_groups[g] = r

\* C1: with ascending milestones, every call to step increments the epoch counter by
\* 1 and, when some milestone is <= epoch + 1 (epoch the incremented counter) and the
\* largest such milestone has a factor paired with it, returns normally having set the
\* learning rate of every parameter group to base_lr times that factor.
C1_StepSetsRate ==
    [][ /\ cur_epoch' = cur_epoch + 1
        /\ ( /\ Ascending(milstones)
             /\ QualifyingAt(cur_epoch') # {}
             /\ LargestQualifying(cur_epoch') \in DOMAIN factors )
           => /\ raised' = "none"
              /\ DOMAIN param_groups' = DOMAIN param_groups
              /\ \A g \in DOMAIN param_groups' :
                    param_groups'[g] =
                        RMul(base_lr, factors[LargestQualifying(cur_epoch')])
      ]_vars

\* C1 witness: a step has run on a two-group optimizer with milestones (2, 4), of
\* which only the first qualified, and both groups hold base_lr times its factor.
C1_Witness ==
    /\ calls > 0 /\ raised = "none"
    /\ milstones = <<2, 4>> /\ Len(factors) = 2
    /\ QualifyingAt(cur_epoch) = {1}
    /\ Len(param_groups) = 2
    /\ AllRates(RMul(base_lr, factors[1]))
    /\ base_lr # RMul(base_lr, factors[1])

\* C2: after a call to step at which no milestone qualified (in particular with an
\* empty milestone list), the call has returned normally and every parameter group
\* has learning rate base_lr.
C2_NoQualifierGivesBaseRate ==
    (calls > 0 /\ QualifyingAt(cur_epoch) = {})
        => (raised = "none" /\ AllRates(base_lr))

\* the scheduler of the example: milestones [100, 150], factors [0.1, 0.01], base 0.1
ExampleScheduler ==
    /\ milstones = <<100, 150>>
    /\ factors = <<Rat(1, 10), Rat(1, 100)>>
    /\ base_lr = Rat(1, 10)

\* C3 as stated: for the example scheduler the rate is 0.1 after the step that brings
\* the counter to 99, 0.01 after the one that brings it to 100, and 0.001 after the
\* one that brings it to 150.
C3_Original ==
    (ExampleScheduler /\ calls > 0) =>
        /\ cur_epoch = 99 => AllRates(Rat(1, 10))
        /\ cur_epoch = 100 => AllRates(Rat(1, 100))
        /\ cur_epoch = 150 => AllRates(Rat(1, 1000))

\* C3 amended: for the example scheduler the rate is already 0.01 after the step that
\* brings the counter to 99 (one epoch before the milestone 100), still 0.01 after the
\* one that brings it to 100, and 0.001 after the one that brings it to 150.
C3_ExampleRates ==
    (ExampleScheduler /\ calls > 0) =>
        /\ cur_epoch = 99 => (raised = "none" /\ AllRates(Rat(1, 100)))
        /\ cur_epoch = 100 => (raised = "none" /\ AllRates(Rat(1, 100)))
        /\ cur_epoch = 150 => (raised = "none" /\ AllRates(Rat(1, 1000)))

\* C3 witness: the example scheduler has been stepped to epoch 150 and the rate of an
\* optimizer built with another rate is 0.001.
C3_Witness ==
    /\ ExampleScheduler /\ calls = 150 /\ cur_epoch = 150
    /\ Len(param_groups) = 2
    /\ AllRates(Rat(1, 1000))

\* C10: the epoch counter is the number of calls to step made so far: 0 at
\* construction, one more after every call, whether the call returned or raised.
C10_EpochCountsSteps == cur_epoch = calls /\ cur_epoch >= 0

\* C10 witness: three calls to step, the last of which raised, and the counter is 3.
C10_Witness == calls = 3 /\ cur_epoch = 3 /\ raised = "UnboundLocalError"

-----------------------------------------------------------------------------
(* Properties of the resolvers and the preset tables, under SpecResolve. *)

\* C4: whatever calls to load_optimizer and load_learning_policy were made, with
\* whatever overrides, OPTIMS and LEARNING_POLICY hold their initial parameter sets.
C4_TablesKeepPresets ==
    OPTIMS = InitOPTIMS /\ LEARNING_POLICY = InitLEARNING_POLICY

\* C5: the "sgd" preset resolved with the single override momentum=0.5 yields a
\* parameter set with the keys of the sgd preset, the preset's value for every key
\* but momentum, and momentum 0.5.
C5_OverrideMerge ==
    ( /\ call.fn = "load_optimizer" /\ call.name = "sgd"
      /\ call.overrides = ("momentum" :> "0.5") )
        => /\ ret.raised = "none"
           /\ DOMAIN ret.cfg = DOMAIN SGDPreset
           /\ \A k \in DOMAIN SGDPreset \ {"momentum"} : ret.cfg[k] = SGDPreset[k]
           /\ ret.cfg["momentum"] = "0.5"

\* C6: a name absent from the preset table makes load_learning_policy and
\* load_optimizer fail with their not-found error, and the names its message
\* enumerates are exactly the keys of the table that was looked up.
C6_ErrorNamesAreTableKeys ==
    /\ (call.fn = "load_learning_policy" /\ call.name \notin DOMAIN LEARNING_POLICY)
          => (ret.raised = "NotImplementedError"
              /\ ret.names = DOMAIN LEARNING_POLICY)
    /\ (call.fn = "load_optimizer" /\ call.name \notin DOMAIN OPTIMS)
          => (ret.raised = "OptimNotIncludeError" /\ ret.names = DOMAIN OPTIMS)

\* the error kind of each resolver's category (learning policies have no class of
\* their own: NotImplementedError is the kind load_learning_policy raises)
CategoryError(fn) ==
    CASE fn \in {"get_num_classes", "_dataset", "load_normalizer", "load_valider"}
            -> "DatasetNotIncludeError"
      [] fn = "load_model" -> "ModelNotDefineError"
      [] fn = "load_loss_func" -> "LossNotDefineError"
      [] fn = "load_optimizer" -> "OptimNotIncludeError"
      [] fn = "load_attack" -> "AttackNotIncludeError"
      [] fn = "load_learning_policy" -> "NotImplementedError"

\* C7: a resolver called with a name outside its category's valid set leaves with
\* that category's own error and returns no object.
C7_UnknownNameRaisesCategoryError ==
    (call.fn # "" /\ call.name \in UnknownNames)
        => (ret.raised = CategoryError(call.fn) /\ ret.kind = "")

-----------------------------------------------------------------------------
(* Properties of _Normalize, under SpecNorm. *)

\* C8: a wrapper constructed with mean absent or std absent returns the batch it is
\* called on unchanged, for the forward call and for the inverse call.
C8_AbsentIsNoOp ==
    ((~args.mean.given \/ ~args.std.given) /\ out.called)
        => (out.raised = "none" /\ out.value = imgs)

\* C8 witness: a wrapper given a mean but no std was called with inv=True on a batch
\* of two different images and returned it.
C8_Witness ==
    /\ args.mean.given /\ ~args.std.given
    /\ out.called /\ out.inv /\ out.raised = "none"
    /\ Len(imgs) = 2 /\ imgs[1] # imgs[2]
    /\ out.value = imgs

\* the wrapper was constructed with a mean and a std without zeros
ValidMeanStd == args.mean.given /\ args.std.given /\ ~HasZero(args.std.value)

-----------------------------------------------------------------------------
(* The pairing of milestones and factors, under SpecSched. *)

\* C11: in every state of a MultiLR scheduler, from its construction on, the
\* milestone list and the factor list have the same length, so that every milestone
\* has a factor paired with it by position.
C11_PairedLists ==
    /\ Len(milstones) = Len(factors)
    /\ \A i \in DOMAIN milstones : i \in DOMAIN factors

-----------------------------------------------------------------------------
(* _split_dataset: loadopts.py 193-209.  A Subset is the sequence of the    *)
(* dataset indices it holds.                                                 *)

\* the ratios _split_dataset is called with; 1/10 is the default (line 195)
RatioChoices ==
    { Rat(1, 10), Rat(0, 1), Rat(1, 3), Rat(1, 2), Rat(1, 1), Rat(3, 2), Rat(-1, 4) }

\* line 200: list(range(datasize))
Range(n) == [i \in 1..n |-> i - 1]

\* lines 202-203: the orders np.random.shuffle can leave the n indices in
Shuffles(n) ==
    { f \in [1..n -> 0..(n - 1)] : \A i, j \in 1..n : i # j => f[i] # f[j] }

\* int(x) of line 204: the integer part, rounding toward zero
IntPart(q) == IF q[1] >= 0 THEN q[1] \div q[2] ELSE -((-q[1]) \div q[2])

\* line 204
ValidSize(r, n) == IntPart(RMul(r, Rat(n, 1)))

\* the position a slice bound v stands for in a list of n items: negative bounds
\* count from the end, and bounds beyond either end are clipped
SliceBound(v, n) ==
    IF v < 0 THEN (IF n + v < 0 THEN 0 ELSE n + v)
    ELSE (IF v > n THEN n ELSE v)

\* line 206: indices[validsize:]
TrainIndicesSkip(indices, validsize) ==
    SubSeq(indices, SliceBound(validsize + 1, Len(indices)) + 1, Len(indices))
TrainIndices(indices, validsize) ==
    SubSeq(indices, SliceBound(validsize, Len(indices)) + 1, Len(indices))

\* line 206: indices[:validsize]
ValidIndices(indices, validsize) ==
    SubSeq(indices, 1, SliceBound(validsize, Len(indices)))

\* lines 193-209: one call of _split_dataset(dataset, ratio, seed, shuffle)
split_dataset ==
    /\ \E indices \in (IF shuffle THEN Shuffles(datasize) ELSE {Range(datasize)}) :
          LET validsize == ValidSize(ratio, datasize)
          IN  /\ trainset' = TrainIndices(indices, validsize)
              /\ validset' = ValidIndices(indices, validsize)
    /\ split' = TRUE
    /\ UNCHANGED <<datasize, ratio, shuffle>>
    /\ UNCHANGED schedVars
    /\ UNCHANGED tableVars
    /\ UNCHANGED normVars

\* a dataset of 0..MaxData items and the arguments of the call to come
InitSplit ==
    /\ datasize \in 0..MaxData
    /\ ratio \in RatioChoices
    /\ shuffle \in BOOLEAN
    /\ trainset = <<>> /\ validset = <<>> /\ split = FALSE
    /\ SchedIdle /\ TablesIdle /\ NormIdle

NextSplit == split_dataset

SpecSplit == InitSplit /\ [][NextSplit]_vars

-----------------------------------------------------------------------------
(* Properties of _split_dataset, under SpecSplit. *)

\* the largest integer <= q
Floor(q) == IF q[1] >= 0 THEN q[1] \div q[2] ELSE -(((-q[1]) + q[2] - 1) \div q[2])

\* the set of the indices a subset holds
IndexSet(subset) == { subset[i] : i \in DOMAIN subset }

\* the two subsets hold no index twice, share none, and together hold 0..n-1
IsPartition ==
    /\ Cardinality(IndexSet(trainset)) = Len(trainset)
    /\ Cardinality(IndexSet(validset)) = Len(validset)
    /\ IndexSet(trainset) \cap IndexSet(validset) = {}
    /\ IndexSet(trainset) \cup IndexSet(validset) = 0..(datasize - 1)

\* the validation subset holds floor(r*n) indices and the training subset the rest
HasFloorSizes ==
    /\ Len(validset) = Floor(RMul(ratio, Rat(datasize, 1)))
    /\ Len(trainset) = datasize - Floor(RMul(ratio, Rat(datasize, 1)))

\* C12 as stated: for a dataset of size n and any ratio r, shuffled or not, the
\* validation subset holds exactly floor(r*n) indices, the training subset the
\* remaining n - floor(r*n), and the two partition 0..n-1.
C12_Original == split => (HasFloorSizes /\ IsPartition)

\* C12 amended: for a dataset of size n and any ratio r, shuffled or not, the two
\* subsets partition 0..n-1, and when 0 <= r <= 1 the validation subset holds exactly
\* floor(r*n) indices and the training subset the remaining n - floor(r*n).
C12_Partition ==
    split => /\ IsPartition
             /\ (ratio[1] >= 0 /\ ratio[1] <= ratio[2]) => HasFloorSizes

\* C12 witness: a shuffled dataset of four items was split in halves, and the
\* validation half is not the first two indices in order.
C12_Witness ==
    /\ split /\ shuffle /\ datasize = 4 /\ ratio = Rat(1, 2)
    /\ Len(validset) = 2 /\ Len(trainset) = 2
    /\ validset # <<0, 1>>
    /\ IsPartition

====
